---- MODULE Spec2Model ----
(***************************************************************************)
(* core::time::Duration (src/core/src/time.rs): the (secs: u64, nanos:     *)
(* u32) span type, its constructors and its checked / saturating /         *)
(* operator arithmetic.                                                    *)
(*                                                                         *)
(* TLC's integers are 32 bits wide, the program's are 32, 64 and 128 bits  *)
(* wide.  Every program integer is therefore a natural number written in   *)
(* base 2^15, least significant limb first, with no leading zero limb      *)
(* (zero is << >>), so that equal numbers are equal sequences and every    *)
(* limb product stays below 2^31.  The program's constants and widths are  *)
(* kept as they are in the source.                                         *)
(***************************************************************************)
EXTENDS Integers, Sequences, FiniteSets, TLC

(***************************************************************************)
(* Unbounded naturals: the values of the program's unsigned integers.      *)
(***************************************************************************)
Base == 2^15

RECURSIVE N(_)
N(n) == IF n = 0 THEN << >> ELSE <<n % Base>> \o N(n \div Base)

RECURSIVE Norm(_)
Norm(a) ==
    IF a = << >> THEN a
    ELSE IF a[Len(a)] = 0 THEN Norm(SubSeq(a, 1, Len(a) - 1)) ELSE a

Limb(a, i) == IF i <= Len(a) THEN a[i] ELSE 0

RECURSIVE AddFrom(_, _, _, _)
AddFrom(a, b, i, c) ==
    IF i > Len(a) /\ i > Len(b)
    THEN (IF c = 0 THEN << >> ELSE <<c>>)
    ELSE LET x == Limb(a, i) + Limb(b, i) + c
         IN  <<x % Base>> \o AddFrom(a, b, i + 1, x \div Base)

Add(a, b) == AddFrom(a, b, 1, 0)

RECURSIVE LtFrom(_, _, _)
LtFrom(a, b, i) ==
    IF i = 0 THEN FALSE
    ELSE IF a[i] # b[i] THEN a[i] < b[i] ELSE LtFrom(a, b, i - 1)

Lt(a, b) ==
    IF Len(a) # Len(b) THEN Len(a) < Len(b) ELSE LtFrom(a, b, Len(a))

Le(a, b) == ~Lt(b, a)
Gt(a, b) == Lt(b, a)
Ge(a, b) == ~Lt(a, b)

\* a - b for a >= b
RECURSIVE SubFrom(_, _, _, _)
SubFrom(a, b, i, c) ==
    IF i > Len(a) THEN << >>
    ELSE LET x == a[i] - Limb(b, i) - c
         IN  IF x < 0
             THEN <<x + Base>> \o SubFrom(a, b, i + 1, 1)
             ELSE <<x>> \o SubFrom(a, b, i + 1, 0)

Sub(a, b) == Norm(SubFrom(a, b, 1, 0))

\* a * m for a limb m < Base
RECURSIVE MulLimbFrom(_, _, _, _)
MulLimbFrom(a, m, i, c) ==
    IF i > Len(a)
    THEN (IF c = 0 THEN << >> ELSE <<c>>)
    ELSE LET x == a[i] * m + c
         IN  <<x % Base>> \o MulLimbFrom(a, m, i + 1, x \div Base)

MulLimb(a, m) == IF m = 0 THEN << >> ELSE MulLimbFrom(a, m, 1, 0)

ShiftLimb(a) == IF a = << >> THEN a ELSE <<0>> \o a

RECURSIVE MulFrom(_, _, _)
MulFrom(a, b, i) ==
    IF i > Len(b) THEN << >>
    ELSE Add(MulLimb(a, b[i]), ShiftLimb(MulFrom(a, b, i + 1)))

Mul(a, b) == MulFrom(a, b, 1)

\* the largest q in lo..hi with q * b <= a, given lo * b <= a
RECURSIVE Digit(_, _, _, _)
Digit(a, b, lo, hi) ==
    IF lo >= hi THEN lo
    ELSE LET mid == (lo + hi + 1) \div 2
         IN  IF Le(MulLimb(b, mid), a)
             THEN Digit(a, b, mid, hi)
             ELSE Digit(a, b, lo, mid - 1)

\* long division of the limbs i..Len(a) of a by b > 0: one quotient limb a
\* step, sought between the bounds the leading limbs give
RECURSIVE DivModFrom(_, _, _)
DivModFrom(a, b, i) ==
    IF i > Len(a) THEN [q |-> << >>, r |-> << >>]
    ELSE LET h   == DivModFrom(a, b, i + 1)
             x   == Norm(<<a[i]>> \o h.r)
             n   == Len(b)
             xt  == Limb(x, n + 1) * Base + Limb(x, n)
             lo  == xt \div (b[n] + 1)
             hi0 == xt \div b[n]
             hi  == IF hi0 > Base - 1 THEN Base - 1 ELSE hi0
             d   == Digit(x, b, lo, hi)
         IN  [q |-> <<d>> \o h.q, r |-> Sub(x, MulLimb(b, d))]

DivMod(a, b) ==
    LET d == DivModFrom(a, b, 1) IN [q |-> Norm(d.q), r |-> d.r]

Div(a, b) == DivMod(a, b).q
Mod(a, b) == DivMod(a, b).r

RECURSIVE Pow2(_)
Pow2(k) == IF k < 15 THEN N(2^k) ELSE ShiftLimb(Pow2(k - 15))

RECURSIVE ToInt(_)
ToInt(a) == IF a = << >> THEN 0 ELSE a[1] + Base * ToInt(Tail(a))

\* bitwise and, or and shifts
RECURSIVE AndLimb(_, _)
AndLimb(x, y) ==
    IF x = 0 \/ y = 0 THEN 0
    ELSE (x % 2) * (y % 2) + 2 * AndLimb(x \div 2, y \div 2)

BitAnd(a, b) ==
    LET len == IF Len(a) < Len(b) THEN Len(a) ELSE Len(b)
    IN  Norm([i \in 1..len |-> AndLimb(a[i], b[i])])

BitOr(a, b) ==
    LET len == IF Len(a) < Len(b) THEN Len(b) ELSE Len(a)
    IN  [i \in 1..len |-> Limb(a, i) + Limb(b, i) - AndLimb(Limb(a, i), Limb(b, i))]

Shl(a, k) == Mul(a, Pow2(k))

Shr(a, k) ==
    LET hi == SubSeq(a, (k \div 15) + 1, Len(a))
    IN  IF k % 15 = 0 THEN hi ELSE Div(hi, N(2^(k % 15)))

(***************************************************************************)
(* The program's integer types.  An unchecked operation wraps at the       *)
(* type's width, a cast to a narrower type truncates, a checked operation  *)
(* answers None out of range.                                              *)
(***************************************************************************)
Two32  == Pow2(32)
Two64  == Pow2(64)
Two128 == Pow2(128)

U32_MAX == Sub(Two32, N(1))
U64_MAX == Sub(Two64, N(1))

Wrap(x, m) == IF Lt(x, m) THEN x ELSE Mod(x, m)

as_u32(x) == Wrap(x, Two32)

u32_add(a, b) == Wrap(Add(a, b), Two32)
u32_sub(a, b) == IF Ge(a, b) THEN Sub(a, b) ELSE Sub(Add(a, Two32), b)
u32_mul(a, b) == Wrap(Mul(a, b), Two32)
u64_add(a, b) == Wrap(Add(a, b), Two64)
u64_sub(a, b) == IF Ge(a, b) THEN Sub(a, b) ELSE Sub(Add(a, Two64), b)
u64_mul(a, b) == Wrap(Mul(a, b), Two64)
u128_add(a, b) == Wrap(Add(a, b), Two128)
u128_mul(a, b) == Wrap(Mul(a, b), Two128)

None    == [tag |-> "None"]
Some(v) == [tag |-> "Some", v |-> v]

u64_checked_add(a, b) ==
    LET s == Add(a, b) IN IF Gt(s, U64_MAX) THEN None ELSE Some(s)

u64_checked_sub(a, b) == IF Lt(a, b) THEN None ELSE Some(Sub(a, b))

u64_checked_mul(a, b) ==
    LET p == Mul(a, b) IN IF Gt(p, U64_MAX) THEN None ELSE Some(p)

\* what a call that may panic does: it returns a value or it panics
Return(v)  == [tag |-> "Return", v |-> v]
\* what an accessor returns: a number or a bool, no Duration
Value(v)   == [tag |-> "Value", v |-> v]
Panic(msg) == [tag |-> "Panic", msg |-> msg]

\* Option::expect
expect(opt, msg) == IF opt.tag = "Some" THEN Return(opt.v) ELSE Panic(msg)

(***************************************************************************)
(* Duration                                                                *)
(***************************************************************************)
NANOS_PER_SEC   == N(1000000000)
NANOS_PER_MILLI == N(1000000)
NANOS_PER_MICRO == N(1000)
MILLIS_PER_SEC  == N(1000)
MICROS_PER_SEC  == N(1000000)

Duration(secs, nanos) == [secs |-> secs, nanos |-> nanos]

\* #[derive(PartialOrd, Ord)]: by secs, then by nanos
duration_lt(a, b) == Lt(a.secs, b.secs) \/ (a.secs = b.secs /\ Lt(a.nanos, b.nanos))

\* new with the carry added unchecked
new_wrapping_carry(secs, nanos) ==
    Return(Duration(u64_add(secs, Div(nanos, NANOS_PER_SEC)),
                    Mod(nanos, NANOS_PER_SEC)))

new(secs, nanos) ==
    LET carried == u64_checked_add(secs, Div(nanos, NANOS_PER_SEC))
    IN  IF carried.tag = "Some"
        THEN Return(Duration(carried.v, Mod(nanos, NANOS_PER_SEC)))
        ELSE Panic("overflow in Duration::new")

from_secs(secs) == Duration(secs, N(0))

from_millis(millis) ==
    Duration(Div(millis, MILLIS_PER_SEC),
             u32_mul(as_u32(Mod(millis, MILLIS_PER_SEC)), NANOS_PER_MILLI))

\* from_micros scaling its remainder as from_millis does
from_micros_milli_scale(micros) ==
    Duration(Div(micros, MICROS_PER_SEC),
             u32_mul(as_u32(Mod(micros, MICROS_PER_SEC)), NANOS_PER_MILLI))

from_micros(micros) ==
    Duration(Div(micros, MICROS_PER_SEC),
             u32_mul(as_u32(Mod(micros, MICROS_PER_SEC)), NANOS_PER_MICRO))

\* from_nanos narrowing the seconds to 32 bits
from_nanos_u32_secs(nanos) ==
    Duration(as_u32(Div(nanos, NANOS_PER_SEC)), as_u32(Mod(nanos, NANOS_PER_SEC)))

from_nanos(nanos) ==
    Duration(Div(nanos, NANOS_PER_SEC), as_u32(Mod(nanos, NANOS_PER_SEC)))

ZERO == from_nanos(N(0))
MAX  == new(U64_MAX, Sub(NANOS_PER_SEC, N(1))).v

is_zero(self) == self.secs = N(0) /\ self.nanos = N(0)
as_secs(self) == self.secs
subsec_millis(self) == Div(self.nanos, NANOS_PER_MILLI)
subsec_micros(self) == Div(self.nanos, NANOS_PER_MICRO)
subsec_nanos(self) == self.nanos

\* as_millis multiplying the seconds in 64 bits
as_millis_u64(self) ==
    u64_add(u64_mul(self.secs, MILLIS_PER_SEC), Div(self.nanos, NANOS_PER_MILLI))

as_millis(self) ==
    u128_add(u128_mul(self.secs, MILLIS_PER_SEC), Div(self.nanos, NANOS_PER_MILLI))

as_micros(self) ==
    u128_add(u128_mul(self.secs, MICROS_PER_SEC), Div(self.nanos, NANOS_PER_MICRO))

as_nanos(self) == u128_add(u128_mul(self.secs, NANOS_PER_SEC), self.nanos)

\* checked_add keeping the nanoseconds it carried
checked_add_keeps_excess(self, rhs) ==
    LET sum == u64_checked_add(self.secs, rhs.secs)
    IN  IF sum.tag = "Some"
        THEN LET nanos == u32_add(self.nanos, rhs.nanos)
             IN  IF Ge(nanos, NANOS_PER_SEC)
                 THEN LET new_secs == u64_checked_add(sum.v, N(1))
                      IN  IF new_secs.tag = "Some"
                          THEN Some(Duration(new_secs.v, nanos))
                          ELSE None
                 ELSE Some(Duration(sum.v, nanos))
        ELSE None

\* checked_add carrying into the seconds unchecked
checked_add_wrapping_carry(self, rhs) ==
    LET sum == u64_checked_add(self.secs, rhs.secs)
    IN  IF sum.tag = "Some"
        THEN LET nanos == u32_add(self.nanos, rhs.nanos)
             IN  IF Ge(nanos, NANOS_PER_SEC)
                 THEN Some(Duration(u64_add(sum.v, N(1)), u32_sub(nanos, NANOS_PER_SEC)))
                 ELSE Some(Duration(sum.v, nanos))
        ELSE None

checked_add(self, rhs) ==
    LET sum == u64_checked_add(self.secs, rhs.secs)
    IN  IF sum.tag = "Some"
        THEN LET nanos == u32_add(self.nanos, rhs.nanos)
             IN  IF Ge(nanos, NANOS_PER_SEC)
                 THEN LET new_secs == u64_checked_add(sum.v, N(1))
                      IN  IF new_secs.tag = "Some"
                          THEN Some(Duration(new_secs.v, u32_sub(nanos, NANOS_PER_SEC)))
                          ELSE None
                 ELSE Some(Duration(sum.v, nanos))
        ELSE None

saturating_add(self, rhs) ==
    LET res == checked_add(self, rhs)
    IN  IF res.tag = "Some" THEN res.v ELSE MAX

\* checked_sub borrowing also when the nanoseconds are equal
checked_sub_strict_compare(self, rhs) ==
    LET diff == u64_checked_sub(self.secs, rhs.secs)
    IN  IF diff.tag = "Some"
        THEN IF Gt(self.nanos, rhs.nanos)
             THEN Some(Duration(diff.v, u32_sub(self.nanos, rhs.nanos)))
             ELSE LET sub_secs == u64_checked_sub(diff.v, N(1))
                  IN  IF sub_secs.tag = "Some"
                      THEN Some(Duration(sub_secs.v,
                                u32_sub(u32_add(self.nanos, NANOS_PER_SEC), rhs.nanos)))
                      ELSE None
        ELSE None

\* checked_sub borrowing without taking the second
checked_sub_no_borrow(self, rhs) ==
    LET diff == u64_checked_sub(self.secs, rhs.secs)
    IN  IF diff.tag = "Some"
        THEN IF Ge(self.nanos, rhs.nanos)
             THEN Some(Duration(diff.v, u32_sub(self.nanos, rhs.nanos)))
             ELSE LET sub_secs == u64_checked_sub(diff.v, N(1))
                  IN  IF sub_secs.tag = "Some"
                      THEN Some(Duration(diff.v,
                                u32_sub(u32_add(self.nanos, NANOS_PER_SEC), rhs.nanos)))
                      ELSE None
        ELSE None

checked_sub(self, rhs) ==
    LET diff == u64_checked_sub(self.secs, rhs.secs)
    IN  IF diff.tag = "Some"
        THEN IF Ge(self.nanos, rhs.nanos)
             THEN Some(Duration(diff.v, u32_sub(self.nanos, rhs.nanos)))
             ELSE LET sub_secs == u64_checked_sub(diff.v, N(1))
                  IN  IF sub_secs.tag = "Some"
                      THEN Some(Duration(sub_secs.v,
                                u32_sub(u32_add(self.nanos, NANOS_PER_SEC), rhs.nanos)))
                      ELSE None
        ELSE None

\* saturating_sub clamping as saturating_add does
saturating_sub_to_max(self, rhs) ==
    LET res == checked_sub(self, rhs)
    IN  IF res.tag = "Some" THEN res.v ELSE MAX

saturating_sub(self, rhs) ==
    LET res == checked_sub(self, rhs)
    IN  IF res.tag = "Some" THEN res.v ELSE ZERO

\* checked_mul multiplying the nanoseconds in 32 bits
checked_mul_u32_nanos(self, rhs) ==
    LET total_nanos == u32_mul(self.nanos, rhs)
        extra_secs  == Div(total_nanos, NANOS_PER_SEC)
        nanos       == as_u32(Mod(total_nanos, NANOS_PER_SEC))
        s           == u64_checked_mul(self.secs, rhs)
    IN  IF s.tag = "Some"
        THEN LET secs == u64_checked_add(s.v, extra_secs)
             IN  IF secs.tag = "Some" THEN Some(Duration(secs.v, nanos)) ELSE None
        ELSE None

checked_mul(self, rhs) ==
    LET total_nanos == u64_mul(self.nanos, rhs)
        extra_secs  == Div(total_nanos, NANOS_PER_SEC)
        nanos       == as_u32(Mod(total_nanos, NANOS_PER_SEC))
        s           == u64_checked_mul(self.secs, rhs)
    IN  IF s.tag = "Some"
        THEN LET secs == u64_checked_add(s.v, extra_secs)
             IN  IF secs.tag = "Some" THEN Some(Duration(secs.v, nanos)) ELSE None
        ELSE None

saturating_mul(self, rhs) ==
    LET res == checked_mul(self, rhs)
    IN  IF res.tag = "Some" THEN res.v ELSE MAX

\* checked_div casting the carried nanoseconds to u32 before dividing them
checked_div_u32_carry(self, rhs) ==
    IF rhs # N(0)
    THEN LET secs        == Div(self.secs, rhs)
             carry       == u64_sub(self.secs, u64_mul(secs, rhs))
             extra_nanos == Div(as_u32(u64_mul(carry, NANOS_PER_SEC)), rhs)
             nanos       == u32_add(Div(self.nanos, rhs), as_u32(extra_nanos))
         IN  Some(Duration(secs, nanos))
    ELSE None

checked_div(self, rhs) ==
    IF rhs # N(0)
    THEN LET secs        == Div(self.secs, rhs)
             carry       == u64_sub(self.secs, u64_mul(secs, rhs))
             extra_nanos == Div(u64_mul(carry, NANOS_PER_SEC), rhs)
             nanos       == u32_add(Div(self.nanos, rhs), as_u32(extra_nanos))
         IN  Some(Duration(secs, nanos))
    ELSE None

\* impl Add / Sub / Mul<u32> / Mul<Duration> for u32 / Div<u32>
add(self, rhs) == expect(checked_add(self, rhs), "overflow when adding durations")
\* - clamping instead of panicking
sub_saturating(self, rhs) == Return(saturating_sub(self, rhs))

sub(self, rhs) == expect(checked_sub(self, rhs), "overflow when subtracting durations")
mul(self, rhs) == expect(checked_mul(self, rhs), "overflow when multiplying duration by scalar")
u32_mul_duration(self, rhs) == mul(rhs, self)
div(self, rhs) ==
    expect(checked_div(self, rhs), "divide by zero error when dividing duration by scalar")

\* impl AddAssign / SubAssign / MulAssign<u32> / DivAssign<u32>: the value
\* assigned to *self, or the panic that leaves *self as it was
add_assign(self, rhs) == add(self, rhs)
sub_assign(self, rhs) == sub(self, rhs)
mul_assign(self, rhs) == mul(self, rhs)
div_assign(self, rhs) == div(self, rhs)

\* sum_durations! folding the nanoseconds into the seconds unchecked at the end
RECURSIVE sum_durations_from_wrapping(_, _, _, _)
sum_durations_from_wrapping(iter, i, total_secs, total_nanos) ==
    IF i > Len(iter)
    THEN Return(Duration(u64_add(total_secs, Div(total_nanos, NANOS_PER_SEC)),
                         as_u32(Mod(total_nanos, NANOS_PER_SEC))))
    ELSE LET entry == iter[i]
             secs  == u64_checked_add(total_secs, entry.secs)
             nanos == u64_checked_add(total_nanos, entry.nanos)
         IN  IF secs.tag # "Some"
             THEN Panic("overflow in iter::sum over durations")
             ELSE IF nanos.tag = "Some"
             THEN sum_durations_from_wrapping(iter, i + 1, secs.v, nanos.v)
             ELSE LET folded == u64_checked_add(secs.v, Div(total_nanos, NANOS_PER_SEC))
                  IN  IF folded.tag = "Some"
                      THEN sum_durations_from_wrapping(iter, i + 1, folded.v,
                               u64_add(Mod(total_nanos, NANOS_PER_SEC), entry.nanos))
                      ELSE Panic("overflow in iter::sum over durations")

\* sum_durations! keeping the whole accumulator when it folds its excess
RECURSIVE sum_durations_from_unfolded(_, _, _, _)
sum_durations_from_unfolded(iter, i, total_secs, total_nanos) ==
    IF i > Len(iter)
    THEN LET secs == u64_checked_add(total_secs, Div(total_nanos, NANOS_PER_SEC))
         IN  IF secs.tag = "Some"
             THEN Return(Duration(secs.v, as_u32(Mod(total_nanos, NANOS_PER_SEC))))
             ELSE Panic("overflow in iter::sum over durations")
    ELSE LET entry == iter[i]
             secs  == u64_checked_add(total_secs, entry.secs)
             nanos == u64_checked_add(total_nanos, entry.nanos)
         IN  IF secs.tag # "Some"
             THEN Panic("overflow in iter::sum over durations")
             ELSE IF nanos.tag = "Some"
             THEN sum_durations_from_unfolded(iter, i + 1, secs.v, nanos.v)
             ELSE LET folded == u64_checked_add(secs.v, Div(total_nanos, NANOS_PER_SEC))
                  IN  IF folded.tag = "Some"
                      THEN sum_durations_from_unfolded(iter, i + 1, folded.v,
                               u64_add(total_nanos, entry.nanos))
                      ELSE Panic("overflow in iter::sum over durations")

\* sum_durations!: the loop from entry i on, then the final fold
RECURSIVE sum_durations_from(_, _, _, _)
sum_durations_from(iter, i, total_secs, total_nanos) ==
    IF i > Len(iter)
    THEN LET secs == u64_checked_add(total_secs, Div(total_nanos, NANOS_PER_SEC))
         IN  IF secs.tag = "Some"
             THEN Return(Duration(secs.v, as_u32(Mod(total_nanos, NANOS_PER_SEC))))
             ELSE Panic("overflow in iter::sum over durations")
    ELSE LET entry == iter[i]
             secs  == u64_checked_add(total_secs, entry.secs)
             nanos == u64_checked_add(total_nanos, entry.nanos)
         IN  IF secs.tag # "Some"
             THEN Panic("overflow in iter::sum over durations")
             ELSE IF nanos.tag = "Some"
             THEN sum_durations_from(iter, i + 1, secs.v, nanos.v)
             ELSE LET folded == u64_checked_add(secs.v, Div(total_nanos, NANOS_PER_SEC))
                  IN  IF folded.tag = "Some"
                      THEN sum_durations_from(iter, i + 1, folded.v,
                               u64_add(Mod(total_nanos, NANOS_PER_SEC), entry.nanos))
                      ELSE Panic("overflow in iter::sum over durations")

sum_durations(iter) == sum_durations_from(iter, 1, N(0), N(0))

\* impl Sum for Duration, impl Sum<&Duration> for Duration
sum(iter)     == sum_durations(iter)
sum_ref(iter) == sum_durations(iter)

(***************************************************************************)
(* The floating-point bridge.  A float is its bit pattern; bits_ty and     *)
(* double_ty are the moduli of the macro's integer types.                  *)
(***************************************************************************)
Ok(v)     == [tag |-> "Ok", v |-> v]
Err(kind) == [tag |-> "Err", kind |-> kind]

description(e) ==
    IF e.kind = "Negative"
    THEN "can not convert float seconds to Duration: value is negative"
    ELSE "can not convert float seconds to Duration: value is either too big or NaN"

\* the test of the magnitude too, as secs < 0.0 would be: negative zero passes
is_sign_negative_nonzero(bits, bits_ty) == Gt(Add(bits, bits), bits_ty)

\* f32::is_sign_negative / f64::is_sign_negative: the top bit of the pattern
is_sign_negative(bits, bits_ty) == Ge(Add(bits, bits), bits_ty)

\* the rounding of both fractional branches: whether one nanosecond is added
\* to the truncated count nanos of nanos_tmp >> nanos_offset
add_ns(nanos_tmp, nanos, nanos_offset) ==
    LET rem_mask     == Sub(Pow2(nanos_offset), N(1))
        rem_msb_mask == Pow2(nanos_offset - 1)
        rem          == BitAnd(nanos_tmp, rem_mask)
        is_tie       == rem = rem_msb_mask
        is_even      == BitAnd(nanos, N(1)) = N(0)
        rem_msb      == BitAnd(nanos_tmp, rem_msb_mask) = N(0)
    IN  ~(rem_msb \/ (is_even /\ is_tie))

bool_as_u32(b) == IF b THEN N(1) ELSE N(0)

\* try_from_secs! taking the exponent 64 for one that fits
try_from_secs_exp_64(secs, mant_bits, exp_bits, offset, bits_ty, double_ty) ==
    LET MIN_EXP   == 1 - (2^exp_bits) \div 2
        MANT_MASK == Sub(Pow2(mant_bits), N(1))
        EXP_MASK  == Sub(Pow2(exp_bits), N(1))
        bits      == secs
        mant      == BitOr(BitAnd(bits, MANT_MASK), Add(MANT_MASK, N(1)))
        exp       == ToInt(BitAnd(Shr(bits, mant_bits), EXP_MASK)) + MIN_EXP
    IN  IF is_sign_negative(secs, bits_ty) THEN Err("Negative")
        ELSE IF exp < -31 THEN Ok(Duration(N(0), N(0)))
        ELSE IF exp < 0
        THEN LET t            == Wrap(Shl(mant, offset + exp), double_ty)
                 nanos_offset == mant_bits + offset
                 nanos_tmp    == u128_mul(NANOS_PER_SEC, t)
                 nanos        == as_u32(Shr(nanos_tmp, nanos_offset))
             IN  Ok(Duration(N(0),
                    u32_add(nanos, bool_as_u32(add_ns(nanos_tmp, nanos, nanos_offset)))))
        ELSE IF exp < mant_bits
        THEN LET secs_part    == Shr(mant, mant_bits - exp)
                 t            == BitAnd(Wrap(Shl(mant, exp), bits_ty), MANT_MASK)
                 nanos_offset == mant_bits
                 nanos_tmp    == Wrap(Mul(NANOS_PER_SEC, t), double_ty)
                 nanos        == as_u32(Shr(nanos_tmp, nanos_offset))
             IN  Ok(Duration(secs_part,
                    u32_add(nanos, bool_as_u32(add_ns(nanos_tmp, nanos, nanos_offset)))))
        ELSE IF exp <= 64
        THEN Ok(Duration(Wrap(Shl(mant, exp - mant_bits), Two64), N(0)))
        ELSE Err("OverflowOrNan")

\* try_from_secs! narrowing the seconds of a whole number to 32 bits
try_from_secs_u32_secs(secs, mant_bits, exp_bits, offset, bits_ty, double_ty) ==
    LET MIN_EXP   == 1 - (2^exp_bits) \div 2
        MANT_MASK == Sub(Pow2(mant_bits), N(1))
        EXP_MASK  == Sub(Pow2(exp_bits), N(1))
        bits      == secs
        mant      == BitOr(BitAnd(bits, MANT_MASK), Add(MANT_MASK, N(1)))
        exp       == ToInt(BitAnd(Shr(bits, mant_bits), EXP_MASK)) + MIN_EXP
    IN  IF is_sign_negative(secs, bits_ty) THEN Err("Negative")
        ELSE IF exp < -31 THEN Ok(Duration(N(0), N(0)))
        ELSE IF exp < 0
        THEN LET t            == Wrap(Shl(mant, offset + exp), double_ty)
                 nanos_offset == mant_bits + offset
                 nanos_tmp    == u128_mul(NANOS_PER_SEC, t)
                 nanos        == as_u32(Shr(nanos_tmp, nanos_offset))
             IN  Ok(Duration(N(0),
                    u32_add(nanos, bool_as_u32(add_ns(nanos_tmp, nanos, nanos_offset)))))
        ELSE IF exp < mant_bits
        THEN LET secs_part    == Shr(mant, mant_bits - exp)
                 t            == BitAnd(Wrap(Shl(mant, exp), bits_ty), MANT_MASK)
                 nanos_offset == mant_bits
                 nanos_tmp    == Wrap(Mul(NANOS_PER_SEC, t), double_ty)
                 nanos        == as_u32(Shr(nanos_tmp, nanos_offset))
             IN  Ok(Duration(secs_part,
                    u32_add(nanos, bool_as_u32(add_ns(nanos_tmp, nanos, nanos_offset)))))
        ELSE IF exp < 64
        THEN Ok(Duration(Wrap(Shl(mant, exp - mant_bits), Two32), N(0)))
        ELSE Err("OverflowOrNan")

try_from_secs(secs, mant_bits, exp_bits, offset, bits_ty, double_ty) ==
    LET MIN_EXP   == 1 - (2^exp_bits) \div 2
        MANT_MASK == Sub(Pow2(mant_bits), N(1))
        EXP_MASK  == Sub(Pow2(exp_bits), N(1))
        bits      == secs
        mant      == BitOr(BitAnd(bits, MANT_MASK), Add(MANT_MASK, N(1)))
        exp       == ToInt(BitAnd(Shr(bits, mant_bits), EXP_MASK)) + MIN_EXP
    IN  IF is_sign_negative(secs, bits_ty) THEN Err("Negative")
        ELSE IF exp < -31 THEN Ok(Duration(N(0), N(0)))
        ELSE IF exp < 0
        THEN LET t            == Wrap(Shl(mant, offset + exp), double_ty)
                 nanos_offset == mant_bits + offset
                 nanos_tmp    == u128_mul(NANOS_PER_SEC, t)
                 nanos        == as_u32(Shr(nanos_tmp, nanos_offset))
             IN  Ok(Duration(N(0),
                    u32_add(nanos, bool_as_u32(add_ns(nanos_tmp, nanos, nanos_offset)))))
        ELSE IF exp < mant_bits
        THEN LET secs_part    == Shr(mant, mant_bits - exp)
                 t            == BitAnd(Wrap(Shl(mant, exp), bits_ty), MANT_MASK)
                 nanos_offset == mant_bits
                 nanos_tmp    == Wrap(Mul(NANOS_PER_SEC, t), double_ty)
                 nanos        == as_u32(Shr(nanos_tmp, nanos_offset))
             IN  Ok(Duration(secs_part,
                    u32_add(nanos, bool_as_u32(add_ns(nanos_tmp, nanos, nanos_offset)))))
        ELSE IF exp < 64
        THEN Ok(Duration(Wrap(Shl(mant, exp - mant_bits), Two64), N(0)))
        ELSE Err("OverflowOrNan")

try_from_secs_f32(secs) == try_from_secs(secs, 23, 8, 41, Two32, Two64)
try_from_secs_f64(secs) == try_from_secs(secs, 52, 11, 44, Two64, Two128)

from_secs_f32(secs) ==
    LET r == try_from_secs_f32(secs)
    IN  IF r.tag = "Ok" THEN Return(r.v) ELSE Panic(description(r))

from_secs_f64(secs) ==
    LET r == try_from_secs_f64(secs)
    IN  IF r.tag = "Ok" THEN Return(r.v) ELSE Panic(description(r))

(***************************************************************************)
(* impl fmt::Debug for Duration.  What is written to the formatter is a    *)
(* sequence of characters; the digit buffer holds bytes.  The formatter f  *)
(* is its flags: the precision and the width asked for (None or Some), the *)
(* sign-plus flag, the fill character and the alignment.                   *)
(***************************************************************************)
BufLen == 9
Byte0  == 48
Byte9  == 57

Formatter(precision, width, sign_plus, fill, align) ==
    [precision |-> precision, width |-> width, sign_plus |-> sign_plus,
     fill |-> fill, align |-> align]

\* what a call of fmt leaves written, when it does not panic
Written(text) == [tag |-> "Written", text |-> text]

\* Option::unwrap_or
unwrap_or(opt, default) == IF opt.tag = "Some" THEN opt.v ELSE default

min(a, b) == IF a < b THEN a ELSE b

\* the characters of the bytes b'0' .. b'Z': a digit byte is b'0' plus a
\* quotient of two u32, which is 42 at most
Chars ==
    <<"0", "1", "2", "3", "4", "5", "6", "7", "8", "9", ":", ";", "<", "=", ">", "?", "@",
      "A", "B", "C", "D", "E", "F", "G", "H", "I", "J", "K", "L", "M",
      "N", "O", "P", "Q", "R", "S", "T", "U", "V", "W", "X", "Y", "Z">>

\* str::from_utf8_unchecked of a slice of the buffer
from_utf8_unchecked(bytes) == [i \in 1..Len(bytes) |-> Chars[bytes[i] - Byte0 + 1]]

\* "{}" of a u64: its decimal digits, the last one the remainder of the
\* division by ten (taken limb by limb from the most significant one)
RECURSIVE div_rem_10(_, _)
div_rem_10(x, i) ==
    IF i > Len(x) THEN [q |-> << >>, r |-> 0]
    ELSE LET h   == div_rem_10(x, i + 1)
             cur == h.r * Base + x[i]
         IN  [q |-> <<cur \div 10>> \o h.q, r |-> cur % 10]

RECURSIVE display_u64(_)
display_u64(x) ==
    LET qr == div_rem_10(x, 1)
        q  == Norm(qr.q)
    IN  IF q = N(0) THEN <<Chars[qr.r + 1]>>
        ELSE display_u64(q) \o <<Chars[qr.r + 1]>>

\* "{:0<width$}" of a str: zeros appended up to the width
pad_zeros(str, width) ==
    IF Len(str) >= width THEN str
    ELSE str \o [i \in 1..(width - Len(str)) |-> "0"]

\* u64::checked_log10
checked_log10(x) == IF x = N(0) THEN None ELSE Some(Len(display_u64(x)) - 1)

\* Formatter::padding and PostPadding::write: the fill characters written
\* before and after what is emitted, by the alignment asked for
padding(f, count, default_align, emitted) ==
    LET align == IF f.align = "Unknown" THEN default_align ELSE f.align
        pre   == IF align = "Left" THEN 0
                 ELSE IF align = "Right" THEN count
                 ELSE count \div 2
        post  == IF align = "Left" THEN count
                 ELSE IF align = "Right" THEN 0
                 ELSE (count + 1) \div 2
    IN  [i \in 1..pre |-> f.fill] \o emitted \o [i \in 1..post |-> f.fill]

\* the digit loop stopping one digit short when no precision is asked for
RECURSIVE write_digits_short(_, _, _, _, _)
write_digits_short(f, buf, pos, fractional_part, divisor) ==
    IF Gt(fractional_part, N(0)) /\ pos < unwrap_or(f.precision, 8)
    THEN IF divisor = N(0) THEN Panic("attempt to divide by zero")
         ELSE IF pos >= Len(buf) THEN Panic("index out of bounds")
         ELSE write_digits_short(f,
                  [buf EXCEPT ![pos + 1] = Byte0 + ToInt(Div(fractional_part, divisor))],
                  pos + 1, Mod(fractional_part, divisor), Div(divisor, N(10)))
    ELSE Return([buf |-> buf, pos |-> pos, fractional_part |-> fractional_part,
                 divisor |-> divisor])

\* the digit loop keeping its divisor from one digit to the next
RECURSIVE write_digits_fixed_divisor(_, _, _, _, _)
write_digits_fixed_divisor(f, buf, pos, fractional_part, divisor) ==
    IF Gt(fractional_part, N(0)) /\ pos < unwrap_or(f.precision, 9)
    THEN IF divisor = N(0) THEN Panic("attempt to divide by zero")
         ELSE IF pos >= Len(buf) THEN Panic("index out of bounds")
         ELSE write_digits_fixed_divisor(f,
                  [buf EXCEPT ![pos + 1] = Byte0 + ToInt(Div(fractional_part, divisor))],
                  pos + 1, Mod(fractional_part, divisor), divisor)
    ELSE Return([buf |-> buf, pos |-> pos, fractional_part |-> fractional_part,
                 divisor |-> divisor])

\* the digit loop of fmt_decimal: digits are written while some are left and
\* the precision allows
RECURSIVE write_digits(_, _, _, _, _)
write_digits(f, buf, pos, fractional_part, divisor) ==
    IF Gt(fractional_part, N(0)) /\ pos < unwrap_or(f.precision, 9)
    THEN IF divisor = N(0) THEN Panic("attempt to divide by zero")
         ELSE IF pos >= Len(buf) THEN Panic("index out of bounds")
         ELSE write_digits(f,
                  [buf EXCEPT ![pos + 1] = Byte0 + ToInt(Div(fractional_part, divisor))],
                  pos + 1, Mod(fractional_part, divisor), Div(divisor, N(10)))
    ELSE Return([buf |-> buf, pos |-> pos, fractional_part |-> fractional_part,
                 divisor |-> divisor])

\* the carry loop of fmt_decimal, entered with the carry set: the buffer and
\* the carry it leaves
RECURSIVE round_up(_, _)
round_up(buf, rev_pos) ==
    IF rev_pos > 0
    THEN IF buf[rev_pos] < Byte9
         THEN [carry |-> FALSE, buf |-> [buf EXCEPT ![rev_pos] = @ + 1]]
         ELSE round_up([buf EXCEPT ![rev_pos] = Byte0], rev_pos - 1)
    ELSE [carry |-> TRUE, buf |-> buf]

\* emit_without_padding with the digits padded to those of the buffer only
emit_without_padding_to_end(f, prefix, integer_part, buf, pos, end, postfix) ==
    prefix \o display_u64(integer_part)
        \o (IF end > 0
            THEN <<".">> \o pad_zeros(from_utf8_unchecked(SubSeq(buf, 1, end)), end)
            ELSE << >>)
        \o postfix

\* emit_without_padding
emit_without_padding(f, prefix, integer_part, buf, pos, end, postfix) ==
    prefix \o display_u64(integer_part)
        \o (IF end > 0
            THEN <<".">> \o pad_zeros(from_utf8_unchecked(SubSeq(buf, 1, end)),
                                      unwrap_or(f.precision, pos))
            ELSE << >>)
        \o postfix

\* fmt_decimal_round with the postfix counted in bytes, not in chars
fmt_decimal_round_byte_len(f, integer_part, buf, pos, fractional_part, divisor, prefix, postfix, overflow_checks) ==
    LET up       == Gt(fractional_part, N(0)) /\ Ge(fractional_part, u32_mul(divisor, N(5)))
        rounded  == IF up THEN round_up(buf, pos) ELSE [carry |-> FALSE, buf |-> buf]
        overflow == rounded.carry /\ integer_part = U64_MAX
        int      == IF rounded.carry THEN u64_add(integer_part, N(1)) ELSE integer_part
        end      == IF f.precision.tag = "Some" THEN min(f.precision.v, 9) ELSE pos
        emitted  == emit_without_padding(f, prefix, int, rounded.buf, pos, end, postfix)
        log      == checked_log10(int)
        actual_w == Len(prefix) + Len(postfix) + (IF postfix[1] = "µ" THEN 1 ELSE 0)
                        + (IF log.tag = "Some" THEN 1 + log.v ELSE 1)
                        + (IF end > 0 THEN 1 + unwrap_or(f.precision, pos) ELSE 0)
    IN  IF overflow /\ overflow_checks THEN Panic("attempt to add with overflow")
        ELSE IF f.width.tag = "None" THEN Written(emitted)
        ELSE IF f.width.v <= actual_w THEN Written(emitted)
        ELSE Written(padding(f, f.width.v - actual_w, "Left", emitted))

\* fmt_decimal from the rounding on; integer_part += 1 panics in a build
\* that checks overflow and wraps in one that does not
fmt_decimal_round(f, integer_part, buf, pos, fractional_part, divisor, prefix, postfix, overflow_checks) ==
    LET up       == Gt(fractional_part, N(0)) /\ Ge(fractional_part, u32_mul(divisor, N(5)))
        rounded  == IF up THEN round_up(buf, pos) ELSE [carry |-> FALSE, buf |-> buf]
        overflow == rounded.carry /\ integer_part = U64_MAX
        int      == IF rounded.carry THEN u64_add(integer_part, N(1)) ELSE integer_part
        end      == IF f.precision.tag = "Some" THEN min(f.precision.v, 9) ELSE pos
        emitted  == emit_without_padding(f, prefix, int, rounded.buf, pos, end, postfix)
        log      == checked_log10(int)
        actual_w == Len(prefix) + Len(postfix)
                        + (IF log.tag = "Some" THEN 1 + log.v ELSE 1)
                        + (IF end > 0 THEN 1 + unwrap_or(f.precision, pos) ELSE 0)
    IN  IF overflow /\ overflow_checks THEN Panic("attempt to add with overflow")
        ELSE IF f.width.tag = "None" THEN Written(emitted)
        ELSE IF f.width.v <= actual_w THEN Written(emitted)
        ELSE Written(padding(f, f.width.v - actual_w, "Left", emitted))

fmt_decimal(f, integer_part, fractional_part, divisor, prefix, postfix, overflow_checks) ==
    LET digits == write_digits(f, [i \in 1..BufLen |-> Byte0], 0, fractional_part, divisor)
    IN  IF digits.tag = "Panic" THEN digits
        ELSE fmt_decimal_round(f, integer_part, digits.v.buf, digits.v.pos,
                               digits.v.fractional_part, digits.v.divisor,
                               prefix, postfix, overflow_checks)

\* fmt with the millisecond branch taken only above a millisecond
fmt_strict_millis(self, f, overflow_checks) ==
    LET prefix == IF f.sign_plus THEN <<"+">> ELSE << >>
    IN  IF Gt(self.secs, N(0))
        THEN fmt_decimal(f, self.secs, self.nanos, Div(NANOS_PER_SEC, N(10)),
                         prefix, <<"s">>, overflow_checks)
        ELSE IF Gt(self.nanos, NANOS_PER_MILLI)
        THEN fmt_decimal(f, Div(self.nanos, NANOS_PER_MILLI), Mod(self.nanos, NANOS_PER_MILLI),
                         Div(NANOS_PER_MILLI, N(10)), prefix, <<"m", "s">>, overflow_checks)
        ELSE IF Ge(self.nanos, NANOS_PER_MICRO)
        THEN fmt_decimal(f, Div(self.nanos, NANOS_PER_MICRO), Mod(self.nanos, NANOS_PER_MICRO),
                         Div(NANOS_PER_MICRO, N(10)), prefix, <<"µ", "s">>, overflow_checks)
        ELSE fmt_decimal(f, self.nanos, N(0), N(1), prefix, <<"n", "s">>, overflow_checks)

\* fmt with the microsecond test made before the millisecond one
fmt_micros_first(self, f, overflow_checks) ==
    LET prefix == IF f.sign_plus THEN <<"+">> ELSE << >>
    IN  IF Gt(self.secs, N(0))
        THEN fmt_decimal(f, self.secs, self.nanos, Div(NANOS_PER_SEC, N(10)),
                         prefix, <<"s">>, overflow_checks)
        ELSE IF Ge(self.nanos, NANOS_PER_MICRO)
        THEN fmt_decimal(f, Div(self.nanos, NANOS_PER_MICRO), Mod(self.nanos, NANOS_PER_MICRO),
                         Div(NANOS_PER_MICRO, N(10)), prefix, <<"µ", "s">>, overflow_checks)
        ELSE IF Ge(self.nanos, NANOS_PER_MILLI)
        THEN fmt_decimal(f, Div(self.nanos, NANOS_PER_MILLI), Mod(self.nanos, NANOS_PER_MILLI),
                         Div(NANOS_PER_MILLI, N(10)), prefix, <<"m", "s">>, overflow_checks)
        ELSE fmt_decimal(f, self.nanos, N(0), N(1), prefix, <<"n", "s">>, overflow_checks)

\* fmt with the microsecond branch taken only above a microsecond
fmt_strict_micros(self, f, overflow_checks) ==
    LET prefix == IF f.sign_plus THEN <<"+">> ELSE << >>
    IN  IF Gt(self.secs, N(0))
        THEN fmt_decimal(f, self.secs, self.nanos, Div(NANOS_PER_SEC, N(10)),
                         prefix, <<"s">>, overflow_checks)
        ELSE IF Ge(self.nanos, NANOS_PER_MILLI)
        THEN fmt_decimal(f, Div(self.nanos, NANOS_PER_MILLI), Mod(self.nanos, NANOS_PER_MILLI),
                         Div(NANOS_PER_MILLI, N(10)), prefix, <<"m", "s">>, overflow_checks)
        ELSE IF Gt(self.nanos, NANOS_PER_MICRO)
        THEN fmt_decimal(f, Div(self.nanos, NANOS_PER_MICRO), Mod(self.nanos, NANOS_PER_MICRO),
                         Div(NANOS_PER_MICRO, N(10)), prefix, <<"µ", "s">>, overflow_checks)
        ELSE fmt_decimal(f, self.nanos, N(0), N(1), prefix, <<"n", "s">>, overflow_checks)

\* <Duration as fmt::Debug>::fmt
fmt(self, f, overflow_checks) ==
    LET prefix == IF f.sign_plus THEN <<"+">> ELSE << >>
    IN  IF Gt(self.secs, N(0))
        THEN fmt_decimal(f, self.secs, self.nanos, Div(NANOS_PER_SEC, N(10)),
                         prefix, <<"s">>, overflow_checks)
        ELSE IF Ge(self.nanos, NANOS_PER_MILLI)
        THEN fmt_decimal(f, Div(self.nanos, NANOS_PER_MILLI), Mod(self.nanos, NANOS_PER_MILLI),
                         Div(NANOS_PER_MILLI, N(10)), prefix, <<"m", "s">>, overflow_checks)
        ELSE IF Ge(self.nanos, NANOS_PER_MICRO)
        THEN fmt_decimal(f, Div(self.nanos, NANOS_PER_MICRO), Mod(self.nanos, NANOS_PER_MICRO),
                         Div(NANOS_PER_MICRO, N(10)), prefix, <<"µ", "s">>, overflow_checks)
        ELSE fmt_decimal(f, self.nanos, N(0), N(1), prefix, <<"n", "s">>, overflow_checks)

(***************************************************************************)
(* The bounds of the model and the inputs of the calls: the values within  *)
(* Near of the ends of each integer range and of the second boundary, the  *)
(* scalars up to MaxScalar, the quotients of u64::MAX by them and the most *)
(* seconds whose nanoseconds fit in 64 bits.                               *)
(***************************************************************************)
Near      == 1
MaxScalar == 3
MaxLen    == 2
MaxOps    == 2

From(m)  == {Add(m, N(i)) : i \in 0..Near}
Below(m) == {Sub(m, N(i)) : i \in 0..Near}

U64Inputs == From(N(0)) \cup Below(U64_MAX)
                \cup {Div(U64_MAX, N(k)) : k \in 2..MaxScalar}
                \cup {Div(U64_MAX, NANOS_PER_SEC)}
U32Inputs == From(N(0)) \cup Below(Sub(NANOS_PER_SEC, N(1)))
                \cup From(NANOS_PER_SEC) \cup Below(U32_MAX)
Scalars   == {N(k) : k \in 0..MaxScalar} \cup {U32_MAX}

\* float patterns: either sign, the exponents within Near of each branch
\* boundary of try_from_secs! (and the all-zeros and all-ones exponent fields),
\* the mantissa fields within Near of all-zeros and of all-ones
ExpInputs(mant_bits) ==
    UNION {{b - 1 - i, b + i} : b \in {-31, 0, mant_bits, 64}, i \in 0..Near}

FloatInputs(mant_bits, exp_bits) ==
    LET bias   == (2^exp_bits) \div 2 - 1
        fields == {e + bias : e \in ExpInputs(mant_bits)} \cup {0, 2^exp_bits - 1}
        mants  == From(N(0)) \cup Below(Sub(Pow2(mant_bits), N(1)))
    IN  {Add(Add(Mul(N(sign), Pow2(mant_bits + exp_bits)), Mul(N(field), Pow2(mant_bits))), m) :
            sign \in {0, 1}, field \in fields, m \in mants}

F32Inputs == FloatInputs(23, 8)
F64Inputs == FloatInputs(52, 11)

\* the right-hand sides: no seconds or all of them, with no nanoseconds, one,
\* or all but one of a second
SubsecInputs == {N(0), N(1), Sub(NANOS_PER_SEC, N(1))}
Durations    == {Duration(s, ns) : s \in {N(0), U64_MAX}, ns \in SubsecInputs}

\* the Durations formatted: no seconds, some, and all of them, with the
\* nanoseconds at which the unit changes, those that round up into the next
\* digit, the next unit or the next second, and exact halves
DebugNanos ==
    {N(k) : k \in {0, 1, 95, 999, 1000, 999500, 999999, 1000000, 2500000, 125000000,
                    500000000, 730023852, 999500000, 999999999}}

DebugInputs == {Duration(s, ns) : s \in {N(0), N(5), U64_MAX}, ns \in DebugNanos}

\* the formatters: every precision with no width, and some precisions with a
\* width the rendering exceeds or falls short of, in every alignment
Precisions == {None} \cup {Some(p) : p \in 0..(BufLen + 1)}

Formatters ==
    {Formatter(p, None, plus, " ", "Unknown") : p \in Precisions, plus \in BOOLEAN}
        \cup {Formatter(p, Some(w), plus, fa[1], fa[2]) :
                 p \in {None, Some(0), Some(2), Some(BufLen + 1)},
                 w \in {2, 24},
                 plus \in BOOLEAN,
                 fa \in {<<" ", "Unknown">>, <<"*", "Left">>, <<"*", "Right">>, <<"*", "Center">>}}

(***************************************************************************)
(* The state: d is the caller's Duration, call the call just made on it    *)
(* (its arguments and what it answered), n the number of calls so far.     *)
(*                                                                         *)
(* Every record is written with its fields in the order in which their     *)
(* names first occur in this module, which is the order TLC keeps them in:  *)
(* a record written otherwise is reordered in place the first time it is   *)
(* compared, and TLC's workers, comparing the same state at once, corrupt  *)
(* it.                                                                     *)
(***************************************************************************)
VARIABLES d, call, n

vars == <<d, call, n>>

Idle == [op |-> "idle"]

Binary(op, rhs, out) == [self |-> d, rhs |-> rhs, op |-> op, out |-> out]

Init ==
    /\ d \in {ZERO, MAX}
    /\ call = Idle
    /\ n = 0

Ready == call = Idle /\ n < MaxOps

\* a call that leaves the caller's Duration alone until its answer is taken
Answer(c) ==
    /\ Ready
    /\ call' = c
    /\ n' = n + 1
    /\ UNCHANGED d

\* a compound assignment: *self is replaced unless the call panics
Assign(c) ==
    /\ Ready
    /\ call' = c
    /\ n' = n + 1
    /\ d' = IF c.out.tag = "Return" THEN c.out.v ELSE d

\* a constructor reads nothing of the state: it is the first call of a run
Construct(c) ==
    /\ n = 0
    /\ Answer(c)

New ==
    \E s \in U64Inputs, ns \in U32Inputs :
        Construct([secs |-> s, nanos |-> ns, op |-> "new", out |-> new(s, ns)])

FromSecs ==
    \E x \in U64Inputs :
        Construct([op |-> "from_secs", out |-> Return(from_secs(x)), arg |-> x])

FromMillis ==
    \E x \in U64Inputs :
        Construct([op |-> "from_millis", out |-> Return(from_millis(x)), arg |-> x])

FromMicros ==
    \E x \in U64Inputs :
        Construct([op |-> "from_micros", out |-> Return(from_micros(x)), arg |-> x])

FromNanos ==
    \E x \in U64Inputs :
        Construct([op |-> "from_nanos", out |-> Return(from_nanos(x)), arg |-> x])

CheckedAdd == \E rhs \in Durations : Answer(Binary("checked_add", rhs, checked_add(d, rhs)))
CheckedSub == \E rhs \in Durations : Answer(Binary("checked_sub", rhs, checked_sub(d, rhs)))
CheckedMul == \E rhs \in Scalars : Answer(Binary("checked_mul", rhs, checked_mul(d, rhs)))
CheckedDiv == \E rhs \in Scalars : Answer(Binary("checked_div", rhs, checked_div(d, rhs)))

SaturatingAdd ==
    \E rhs \in Durations : Answer(Binary("saturating_add", rhs, Return(saturating_add(d, rhs))))

SaturatingSub ==
    \E rhs \in Durations : Answer(Binary("saturating_sub", rhs, Return(saturating_sub(d, rhs))))

SaturatingMul ==
    \E rhs \in Scalars : Answer(Binary("saturating_mul", rhs, Return(saturating_mul(d, rhs))))

OpAdd == \E rhs \in Durations : Answer(Binary("add", rhs, add(d, rhs)))
OpSub == \E rhs \in Durations : Answer(Binary("sub", rhs, sub(d, rhs)))
OpMul == \E rhs \in Scalars : Answer(Binary("mul", rhs, mul(d, rhs)))
OpDiv == \E rhs \in Scalars : Answer(Binary("div", rhs, div(d, rhs)))

\* u32 * Duration: the scalar is self, the Duration the right-hand side
OpMulU32 ==
    \E k \in Scalars :
        Answer([self |-> k, rhs |-> d, op |-> "u32_mul", out |-> u32_mul_duration(k, d)])

AddAssign == \E rhs \in Durations : Assign(Binary("add_assign", rhs, add_assign(d, rhs)))
SubAssign == \E rhs \in Durations : Assign(Binary("sub_assign", rhs, sub_assign(d, rhs)))
MulAssign == \E rhs \in Scalars : Assign(Binary("mul_assign", rhs, mul_assign(d, rhs)))
DivAssign == \E rhs \in Scalars : Assign(Binary("div_assign", rhs, div_assign(d, rhs)))

\* the sequences summed: of the caller's Duration and of one that carries
SumInputs ==
    LET elems == {d, Duration(N(0), Sub(NANOS_PER_SEC, N(1)))}
    IN  UNION {[1..k -> elems] : k \in 0..MaxLen}

Sum    == \E iter \in SumInputs : Answer([iter |-> iter, op |-> "sum", out |-> sum(iter)])
SumRef == \E iter \in SumInputs : Answer([iter |-> iter, op |-> "sum_ref", out |-> sum_ref(iter)])

\* a sum joined after the entries already taken have left the accumulators
\* at total_secs and total_nanos: any two 64-bit values are left by some
\* sequence of Durations (about 2^64 / 10^9 of them for the largest), a
\* sequence too long to be run entry by entry
Accumulators == {N(0), U64_MAX} \X (From(N(0)) \cup Below(U64_MAX))

SumTail ==
    \E acc \in Accumulators, iter \in SumInputs :
        Answer([total_nanos |-> acc[2], iter |-> iter, total_secs |-> acc[1], op |-> "sum_tail",
                out |-> sum_durations_from(iter, 1, acc[1], acc[2])])

\* the accessors of the caller's Duration
Unary(op, out) == [self |-> d, op |-> op, out |-> out]

IsZero       == Answer(Unary("is_zero", Value(is_zero(d))))
AsSecs       == Answer(Unary("as_secs", Value(as_secs(d))))
SubsecMillis == Answer(Unary("subsec_millis", Value(subsec_millis(d))))
SubsecMicros == Answer(Unary("subsec_micros", Value(subsec_micros(d))))
SubsecNanos  == Answer(Unary("subsec_nanos", Value(subsec_nanos(d))))
AsMillis     == Answer(Unary("as_millis", Value(as_millis(d))))
AsMicros     == Answer(Unary("as_micros", Value(as_micros(d))))
AsNanos      == Answer(Unary("as_nanos", Value(as_nanos(d))))

\* {:?} of a Duration, under any flags, in a build with or without overflow
\* checks; like a constructor it reads nothing of the state
Fmt ==
    /\ n = 0
    /\ \E self \in DebugInputs, f \in Formatters, overflow_checks \in BOOLEAN :
           Answer([self |-> self, f |-> f, op |-> "fmt", out |-> fmt(self, f, overflow_checks)])

TryFromSecsF32 ==
    \E x \in F32Inputs :
        Construct([op |-> "try_from_secs_f32", out |-> try_from_secs_f32(x), arg |-> x])

TryFromSecsF64 ==
    \E x \in F64Inputs :
        Construct([op |-> "try_from_secs_f64", out |-> try_from_secs_f64(x), arg |-> x])

FromSecsF32 ==
    \E x \in F32Inputs :
        Construct([op |-> "from_secs_f32", out |-> from_secs_f32(x), arg |-> x])

FromSecsF64 ==
    \E x \in F64Inputs :
        Construct([op |-> "from_secs_f64", out |-> from_secs_f64(x), arg |-> x])

FloatOps == {"try_from_secs_f32", "try_from_secs_f64", "from_secs_f32", "from_secs_f64"}

\* the caller goes on with the Duration it was answered, while it has calls
\* left to make: None and a panic answer no Duration.  The runs are those of
\* the integer constructors and the arithmetic: what the float bridge answers
\* is looked at, not computed on.
Continue ==
    /\ call # Idle
    /\ call.op \notin FloatOps
    /\ call.out.tag \in {"Some", "Return"}
    /\ n < MaxOps
    /\ d' = call.out.v
    /\ call' = Idle
    /\ UNCHANGED n

Next ==
    \/ New \/ FromSecs \/ FromMillis \/ FromMicros \/ FromNanos
    \/ CheckedAdd \/ CheckedSub \/ CheckedMul \/ CheckedDiv
    \/ SaturatingAdd \/ SaturatingSub \/ SaturatingMul
    \/ OpAdd \/ OpSub \/ OpMul \/ OpMulU32 \/ OpDiv
    \/ AddAssign \/ SubAssign \/ MulAssign \/ DivAssign
    \/ Sum \/ SumRef \/ SumTail
    \/ IsZero \/ AsSecs \/ SubsecMillis \/ SubsecMicros \/ SubsecNanos
    \/ AsMillis \/ AsMicros \/ AsNanos
    \/ Fmt
    \/ TryFromSecsF32 \/ TryFromSecsF64 \/ FromSecsF32 \/ FromSecsF64
    \/ Continue

Spec == Init /\ [][Next]_vars

(***************************************************************************)
(* The claims.                                                             *)
(***************************************************************************)
Answered  == call # Idle
Produced  == Answered /\ call.out.tag \in {"Some", "Return", "Ok"}
Called(f) == Answered /\ call.op = f

\* C1: starting from ZERO, MAX and the values built by new, from_secs,
\* from_millis, from_micros and from_nanos, every Duration that a run of
\* checked, saturating, operator and compound-assignment arithmetic and of sum
\* produces, and every Duration the caller holds, has nanos < 1_000_000_000
C1_NanosBelowSecond ==
    /\ Lt(d.nanos, NANOS_PER_SEC)
    /\ (Produced /\ call.op \notin FloatOps) => Lt(call.out.v.nanos, NANOS_PER_SEC)

\* a second call of a run, an addition whose nanoseconds carry into seconds
C1_Witness ==
    /\ n >= 2
    /\ Called("checked_add")
    /\ call.out.tag = "Some"
    /\ Ge(Add(call.self.nanos, call.rhs.nanos), NANOS_PER_SEC)

\* C2: every Duration that try_from_secs_f32 / try_from_secs_f64 return as
\* Ok has nanos < 1_000_000_000
C2_FloatNanosBelowSecond ==
    (Produced /\ call.op \in {"try_from_secs_f32", "try_from_secs_f64"})
        => Lt(call.out.v.nanos, NANOS_PER_SEC)

\* C3: checked_add(a, b) is None exactly when as_nanos(a) + as_nanos(b)
\* exceeds as_nanos(MAX), and otherwise Some(r) with
\* as_nanos(r) = as_nanos(a) + as_nanos(b)
C3_CheckedAddExact ==
    Called("checked_add") =>
        LET total == Add(as_nanos(call.self), as_nanos(call.rhs))
        IN  IF Gt(total, as_nanos(MAX))
            THEN call.out = None
            ELSE call.out.tag = "Some" /\ as_nanos(call.out.v) = total

\* the seconds add up to u64::MAX and the nanosecond carry overflows them
C3_Witness ==
    /\ Called("checked_add")
    /\ Add(call.self.secs, call.rhs.secs) = U64_MAX
    /\ Ge(Add(call.self.nanos, call.rhs.nanos), NANOS_PER_SEC)
    /\ call.out = None

\* C4: checked_sub(a, b) is None exactly when a < b, and otherwise Some(r)
\* with as_nanos(r) = as_nanos(a) - as_nanos(b); when nanos(a) < nanos(b) a
\* second is borrowed, and the borrow fails when the seconds were equal
C4_CheckedSubExact ==
    Called("checked_sub") =>
        LET a == call.self
            b == call.rhs
        IN  /\ IF duration_lt(a, b)
               THEN call.out = None
               ELSE /\ call.out.tag = "Some"
                    /\ as_nanos(call.out.v) = Sub(as_nanos(a), as_nanos(b))
            /\ (Lt(a.nanos, b.nanos) /\ a.secs = b.secs) => call.out = None
            /\ (Lt(a.nanos, b.nanos) /\ Gt(a.secs, b.secs)) =>
                    /\ call.out.tag = "Some"
                    /\ call.out.v.secs = Sub(Sub(a.secs, b.secs), N(1))
                    /\ call.out.v.nanos = Sub(Add(a.nanos, NANOS_PER_SEC), b.nanos)

\* a borrow that succeeds
C4_Witness ==
    /\ Called("checked_sub")
    /\ Lt(call.self.nanos, call.rhs.nanos)
    /\ Gt(call.self.secs, call.rhs.secs)
    /\ call.out.tag = "Some"

\* C5: checked_mul(d, k) is None exactly when as_nanos(d) * k exceeds
\* as_nanos(MAX), and otherwise Some(r) with as_nanos(r) = as_nanos(d) * k
C5_CheckedMulExact ==
    Called("checked_mul") =>
        LET product == Mul(as_nanos(call.self), call.rhs)
        IN  /\ IF Gt(product, as_nanos(MAX))
               THEN call.out = None
               ELSE call.out.tag = "Some" /\ as_nanos(call.out.v) = product
            /\ call.rhs = N(0) => call.out = Some(ZERO)

\* the seconds product fits in 64 bits and the carried seconds overflow it
C5_Witness ==
    /\ Called("checked_mul")
    /\ Le(Mul(call.self.secs, call.rhs), U64_MAX)
    /\ call.out = None

\* C6: checked_div(d, k) is None exactly when k = 0, and otherwise Some(r)
\* with secs(r) = secs(d) div k and
\* nanos(r) = nanos(d) div k + ((secs(d) mod k) * 1_000_000_000) div k
C6_CheckedDivParts ==
    Called("checked_div") =>
        LET k == call.rhs
        IN  IF k = N(0)
            THEN call.out = None
            ELSE /\ call.out.tag = "Some"
                 /\ call.out.v.secs = Div(call.self.secs, k)
                 /\ call.out.v.nanos =
                        Add(Div(call.self.nanos, k),
                            Div(Mul(Mod(call.self.secs, k), NANOS_PER_SEC), k))

\* a division by the largest scalar that leaves a remainder of seconds whose
\* nanoseconds do not fit in 32 bits
C6_Witness ==
    /\ Called("checked_div")
    /\ call.rhs = U32_MAX
    /\ Gt(Mul(Mod(call.self.secs, call.rhs), NANOS_PER_SEC), U32_MAX)
    /\ call.out.tag = "Some"

\* C7: saturating_add and saturating_mul answer the checked result when there
\* is one and MAX otherwise, saturating_sub the checked result or ZERO; so
\* MAX.saturating_add(x) = MAX and ZERO.saturating_sub(x) = ZERO
C7_Saturating ==
    /\ Called("saturating_add") =>
           LET c == checked_add(call.self, call.rhs)
           IN  /\ call.out.v = IF c.tag = "Some" THEN c.v ELSE MAX
               /\ call.self = MAX => call.out.v = MAX
    /\ Called("saturating_mul") =>
           LET c == checked_mul(call.self, call.rhs)
           IN  call.out.v = IF c.tag = "Some" THEN c.v ELSE MAX
    /\ Called("saturating_sub") =>
           LET c == checked_sub(call.self, call.rhs)
           IN  /\ call.out.v = IF c.tag = "Some" THEN c.v ELSE ZERO
               /\ call.self = ZERO => call.out.v = ZERO

\* ZERO.saturating_sub of a Duration that is not zero
C7_Witness ==
    /\ Called("saturating_sub")
    /\ call.self = ZERO
    /\ call.rhs # ZERO
    /\ call.out.v = ZERO

Fatal(out, checked) ==
    IF checked.tag = "Some" THEN out = Return(checked.v) ELSE out.tag = "Panic"

\* C8: +, -, * (both orders), / and their compound assignments panic exactly
\* when checked_add, checked_sub, checked_mul, checked_div answer None and
\* otherwise return the checked value; from_secs_f32 / from_secs_f64 panic
\* exactly when try_from_secs_f32 / try_from_secs_f64 answer an error, with
\* the error's description as the message
C8_FatalForms ==
    /\ (Called("add") \/ Called("add_assign")) =>
           Fatal(call.out, checked_add(call.self, call.rhs))
    /\ (Called("sub") \/ Called("sub_assign")) =>
           Fatal(call.out, checked_sub(call.self, call.rhs))
    /\ (Called("mul") \/ Called("mul_assign")) =>
           Fatal(call.out, checked_mul(call.self, call.rhs))
    /\ Called("u32_mul") => Fatal(call.out, checked_mul(call.rhs, call.self))
    /\ (Called("div") \/ Called("div_assign")) =>
           /\ Fatal(call.out, checked_div(call.self, call.rhs))
           /\ call.rhs = N(0) => call.out.tag = "Panic"
    /\ Called("from_secs_f32") =>
           LET r == try_from_secs_f32(call.arg)
           IN  IF r.tag = "Ok" THEN call.out = Return(r.v)
               ELSE call.out = Panic(description(r))
    /\ Called("from_secs_f64") =>
           LET r == try_from_secs_f64(call.arg)
           IN  IF r.tag = "Ok" THEN call.out = Return(r.v)
               ELSE call.out = Panic(description(r))

\* a subtraction whose checked form is None, made as a compound assignment
C8_Witness ==
    /\ Called("sub_assign")
    /\ checked_sub(call.self, call.rhs) = None
    /\ call.out.tag = "Panic"
    /\ d = call.self

\* C9: new(secs, nanos) panics exactly when secs + nanos div 1_000_000_000
\* overflows 64 bits, and otherwise returns that many seconds with
\* nanos mod 1_000_000_000, in all secs * 10^9 + nanos nanoseconds
C9_New ==
    Called("new") =>
        LET secs == Add(call.secs, Div(call.nanos, NANOS_PER_SEC))
        IN  IF Gt(secs, U64_MAX)
            THEN call.out.tag = "Panic"
            ELSE /\ call.out = Return(Duration(secs, Mod(call.nanos, NANOS_PER_SEC)))
                 /\ as_nanos(call.out.v) = Add(Mul(call.secs, NANOS_PER_SEC), call.nanos)

\* nanoseconds of several seconds that carry without overflow
C9_Witness ==
    /\ Called("new")
    /\ Ge(call.nanos, Mul(N(4), NANOS_PER_SEC))
    /\ call.out.tag = "Return"
    /\ call.out.v.secs = Add(call.secs, N(4))

\* C10: from_secs, from_millis, from_micros and from_nanos of any 64-bit n
\* return the Duration of n * 10^9, n * 10^6, n * 10^3 and n nanoseconds, so
\* that from_secs(s) = from_millis(1000 s) = from_micros(10^6 s) =
\* from_nanos(10^9 s) whenever these arguments fit in 64 bits
C10_FromUnits ==
    /\ Called("from_secs") =>
           /\ call.out.tag = "Return"
           /\ as_nanos(call.out.v) = Mul(call.arg, NANOS_PER_SEC)
           /\ Le(Mul(call.arg, MILLIS_PER_SEC), U64_MAX) =>
                  from_millis(Mul(call.arg, MILLIS_PER_SEC)) = call.out.v
           /\ Le(Mul(call.arg, MICROS_PER_SEC), U64_MAX) =>
                  from_micros(Mul(call.arg, MICROS_PER_SEC)) = call.out.v
           /\ Le(Mul(call.arg, NANOS_PER_SEC), U64_MAX) =>
                  from_nanos(Mul(call.arg, NANOS_PER_SEC)) = call.out.v
    /\ Called("from_millis") =>
           /\ call.out.tag = "Return"
           /\ as_nanos(call.out.v) = Mul(call.arg, NANOS_PER_MILLI)
           /\ Lt(call.out.v.nanos, NANOS_PER_SEC)
    /\ Called("from_micros") =>
           /\ call.out.tag = "Return"
           /\ as_nanos(call.out.v) = Mul(call.arg, NANOS_PER_MICRO)
           /\ Lt(call.out.v.nanos, NANOS_PER_SEC)
    /\ Called("from_nanos") =>
           /\ call.out.tag = "Return"
           /\ as_nanos(call.out.v) = call.arg
           /\ Lt(call.out.v.nanos, NANOS_PER_SEC)

\* the most milliseconds there are: 18_446_744_073_709_551 s and 615 ms
C10_Witness ==
    /\ Called("from_millis")
    /\ call.arg = U64_MAX
    /\ call.out.v.nanos = N(615000000)

\* C11: as_millis, as_micros and as_nanos of a valid Duration are its whole
\* span secs * 10^9 + nanos in nanoseconds, truncated to the unit, computed
\* without overflow; subsec_millis < 1000, subsec_micros < 1_000_000 and
\* subsec_nanos < 1_000_000_000 are the fraction of a second only, so that
\* as_millis = as_secs * 1000 + subsec_millis, and likewise for the others
C11_Accessors ==
    LET a     == call.self
        total == Add(Mul(a.secs, N(1000000000)), a.nanos)
    IN  /\ Called("as_nanos") => call.out.v = total
        /\ Called("as_micros") =>
               /\ call.out.v = Div(total, N(1000))
               /\ call.out.v = Add(Mul(as_secs(a), N(1000000)), subsec_micros(a))
        /\ Called("as_millis") =>
               /\ call.out.v = Div(total, N(1000000))
               /\ call.out.v = Add(Mul(as_secs(a), N(1000)), subsec_millis(a))
        /\ Called("as_secs") => call.out.v = Div(total, N(1000000000))
        /\ Called("subsec_nanos") =>
               /\ Lt(call.out.v, N(1000000000))
               /\ call.out.v = Mod(total, N(1000000000))
        /\ Called("subsec_micros") =>
               /\ Lt(call.out.v, N(1000000))
               /\ call.out.v = Div(Mod(total, N(1000000000)), N(1000))
        /\ Called("subsec_millis") =>
               /\ Lt(call.out.v, N(1000))
               /\ call.out.v = Div(Mod(total, N(1000000000)), N(1000000))

\* the milliseconds of a computed Duration whose seconds, taken a thousand
\* times, do not fit in 64 bits
C11_Witness ==
    /\ Called("as_millis")
    /\ n >= 2
    /\ Gt(Mul(call.self.secs, N(1000)), U64_MAX)
    /\ call.self.nanos # N(0)

\* C12: from_nanos(as_nanos(d)) = d for every Duration d whose nanoseconds
\* fit the 64-bit argument of from_nanos; likewise from_millis(as_millis(d))
\* = d when d is a whole number of milliseconds and from_micros(as_micros(d))
\* = d when d is a whole number of microseconds
C12_RoundTrip ==
    LET fits == Answered /\ call.out.tag = "Value" /\ Le(call.out.v, U64_MAX)
    IN  /\ (Called("as_nanos") /\ fits) => from_nanos(call.out.v) = call.self
        /\ (Called("as_micros") /\ fits /\ Mod(call.self.nanos, N(1000)) = N(0)) =>
               from_micros(call.out.v) = call.self
        /\ (Called("as_millis") /\ fits /\ Mod(call.self.nanos, N(1000000)) = N(0)) =>
               from_millis(call.out.v) = call.self

\* the nanoseconds of the most seconds that fit, and one nanosecond
C12_Witness ==
    /\ Called("as_nanos")
    /\ call.self.secs = Div(U64_MAX, N(1000000000))
    /\ call.self.nanos = N(1)
    /\ Le(call.out.v, U64_MAX)

\* C13: d + ZERO = d for every valid Duration d; and whenever
\* checked_add(a, b) = Some(c), checked_sub(c, b) = Some(a)
C13_AddIdentityInverse ==
    /\ (Called("add") /\ call.rhs = ZERO) => call.out = Return(call.self)
    /\ (Called("checked_add") /\ call.out.tag = "Some") =>
           checked_sub(call.out.v, call.rhs) = Some(call.self)

\* a sum that carried a second, which the subtraction has to borrow back
C13_Witness ==
    /\ Called("checked_add")
    /\ call.out.tag = "Some"
    /\ call.self.secs # N(0)
    /\ call.rhs.nanos # N(0)
    /\ Lt(call.out.v.nanos, call.rhs.nanos)

\* the sign bit of the pattern a float call was given
SignBit(c) ==
    IF c.op \in {"try_from_secs_f32", "from_secs_f32"}
    THEN Ge(c.arg, Pow2(31))
    ELSE Ge(c.arg, Pow2(63))

TryCalled == Called("try_from_secs_f32") \/ Called("try_from_secs_f64")

\* C14: try_from_secs_f32 / try_from_secs_f64 fail with Negative for every
\* input whose sign bit is set, negative zero included, and return no
\* Duration for it; no input whose sign bit is clear fails with Negative
C14_NegativeBySignBit ==
    TryCalled =>
        IF SignBit(call)
        THEN call.out = Err("Negative")
        ELSE call.out # Err("Negative")

\* negative zero: the sign bit and nothing else
C14_Witness ==
    /\ Called("try_from_secs_f64")
    /\ call.arg = Pow2(63)
    /\ call.out = Err("Negative")

\* the exponent field of the pattern a float call was given, and the
\* exponent e it stands for
ExpField(c) ==
    IF c.op \in {"try_from_secs_f32", "from_secs_f32"}
    THEN ToInt(Mod(Div(c.arg, Pow2(23)), Pow2(8)))
    ELSE ToInt(Mod(Div(c.arg, Pow2(52)), Pow2(11)))

Exponent(c) ==
    IF c.op \in {"try_from_secs_f32", "from_secs_f32"}
    THEN ExpField(c) - 127
    ELSE ExpField(c) - 1023

\* C15 as claimed: try_from_secs_f32 / try_from_secs_f64 fail with
\* OverflowOrNan whenever the input is NaN, infinite or of exponent e >= 64
C15_OverflowOrNanAnySign ==
    (TryCalled /\ Exponent(call) >= 64) => call.out = Err("OverflowOrNan")

\* C15, amended: try_from_secs_f32 / try_from_secs_f64 fail with
\* OverflowOrNan whenever the sign bit of the input is clear and the input is
\* NaN, infinite or of exponent e >= 64; when the sign bit is set they fail
\* with Negative whatever the exponent
C15_OverflowOrNan ==
    (TryCalled /\ Exponent(call) >= 64) =>
        call.out = IF SignBit(call) THEN Err("Negative") ELSE Err("OverflowOrNan")

\* the least exponent that does not fit: 2^64 seconds
C15_Witness ==
    /\ Called("try_from_secs_f64")
    /\ ~SignBit(call)
    /\ Exponent(call) = 64
    /\ call.out = Err("OverflowOrNan")

\* the mantissa field of the pattern a float call was given, and its width
MantBits(c) == IF c.op \in {"try_from_secs_f32", "from_secs_f32"} THEN 23 ELSE 52

MantField(c) == Mod(c.arg, Pow2(MantBits(c)))

\* x * 10^9 rounded to the nearest integer, ties to the even one, for the
\* value x = sig * 2^pw of a non-negative finite pattern: sig is the mantissa
\* field with the implicit bit of a normal number, and 10^9 * sig < 2^83
NearestNanos(c) ==
    LET m      == MantBits(c)
        bias   == IF m = 23 THEN 127 ELSE 1023
        normal == ExpField(c) # 0
        sig    == IF normal THEN Add(Pow2(m), MantField(c)) ELSE MantField(c)
        pw     == (IF normal THEN ExpField(c) - bias ELSE 1 - bias) - m
        num    == Mul(sig, N(1000000000))
    IN  IF pw >= 0 THEN Mul(num, Pow2(pw))
        ELSE IF -pw > 128 THEN N(0)
        ELSE LET q    == Div(num, Pow2(-pw))
                 r    == Mod(num, Pow2(-pw))
                 half == Pow2(-pw - 1)
                 odd  == Mod(q, N(2)) = N(1)
             IN  IF Gt(r, half) \/ (r = half /\ odd) THEN Add(q, N(1)) ELSE q

FiniteBelow2To64(c) ==
    /\ ~SignBit(c)
    /\ Exponent(c) < 64

\* C16: for every non-negative finite input x below 2^64, subnormals and +0
\* included, try_from_secs_f32 / try_from_secs_f64 return Ok of the canonical
\* Duration (N div 10^9, N mod 10^9), N being x * 10^9 rounded to the nearest
\* integer, ties to even; so (0, 0) when e < -31, and mantissa << (e - m)
\* seconds and no nanoseconds when m <= e < 64
C16_NearestTiesEven ==
    (TryCalled /\ FiniteBelow2To64(call)) =>
        LET nn == NearestNanos(call)
        IN  /\ call.out = Ok(Duration(Div(nn, N(1000000000)), Mod(nn, N(1000000000))))
            /\ Exponent(call) < -31 => call.out = Ok(Duration(N(0), N(0)))
            /\ Exponent(call) >= MantBits(call) =>
                   call.out = Ok(Duration(Mul(Add(Pow2(MantBits(call)), MantField(call)),
                                              Pow2(Exponent(call) - MantBits(call))), N(0)))

\* the nanoseconds of all the entries of a sequence of Durations
RECURSIVE TotalNanos(_)
TotalNanos(iter) ==
    IF iter = << >> THEN N(0)
    ELSE LET e == iter[Len(iter)]
         IN  Add(TotalNanos(SubSeq(iter, 1, Len(iter) - 1)),
                 Add(Mul(e.secs, N(1000000000)), e.nanos))

SumCalled == Called("sum") \/ Called("sum_ref")

\* C17: sum, by value or by reference, panics exactly when the exact total of
\* the entries exceeds MAX, and otherwise returns the canonical Duration of
\* exactly that many nanoseconds; the empty sequence gives ZERO
C17_SumExact ==
    SumCalled =>
        LET total == TotalNanos(call.iter)
            most  == Add(Mul(U64_MAX, N(1000000000)), N(999999999))
        IN  /\ IF Gt(total, most)
               THEN call.out.tag = "Panic"
               ELSE /\ call.out.tag = "Return"
                    /\ Lt(call.out.v.nanos, N(1000000000))
                    /\ Add(Mul(call.out.v.secs, N(1000000000)), call.out.v.nanos) = total
            /\ call.iter = << >> => call.out = Return(ZERO)

\* seconds that add up to u64::MAX without overflow, and nanoseconds whose
\* carry then overflows them
C17_Witness ==
    /\ Called("sum_ref")
    /\ Len(call.iter) = 2
    /\ call.iter[1].secs = U64_MAX
    /\ call.iter[2].secs = N(0)
    /\ Ge(Add(call.iter[1].nanos, call.iter[2].nanos), N(1000000000))
    /\ call.out.tag = "Panic"

(***************************************************************************)
(* Reading a rendering back: the fill characters set aside, the sign, the  *)
(* digits before the decimal point, those after it, and the unit suffix.   *)
(***************************************************************************)
DigitChars == {Chars[k + 1] : k \in 0..9}

DigitValue(ch) == CHOOSE k \in 0..9 : Chars[k + 1] = ch

RECURSIVE LeadingDigits(_)
LeadingDigits(t) ==
    IF t # << >> /\ Head(t) \in DigitChars THEN <<Head(t)>> \o LeadingDigits(Tail(t))
    ELSE << >>

\* the number written by the digits from..to of t, four at most, and by the
\* first k digits of t
RECURSIVE Short(_, _, _)
Short(t, from, to) ==
    IF to < from THEN 0 ELSE 10 * Short(t, from, to - 1) + DigitValue(t[to])

RECURSIVE ParseDigits(_, _)
ParseDigits(t, k) ==
    IF k <= 4 THEN N(Short(t, 1, k))
    ELSE Add(Mul(ParseDigits(t, k - 4), N(10000)), N(Short(t, k - 3, k)))

Drop(t, k) == SubSeq(t, k + 1, Len(t))

FmtWritten == Called("fmt") /\ call.out.tag = "Written"

Rendering(c) ==
    LET NotFill(ch) == ch # c.f.fill IN SelectSeq(c.out.text, NotFill)

Unsigned(c) ==
    LET t == Rendering(c) IN IF t # << >> /\ Head(t) = "+" THEN Tail(t) ELSE t

IntegerText(c) == LeadingDigits(Unsigned(c))

AfterInteger(c) == Drop(Unsigned(c), Len(IntegerText(c)))

HasPoint(c) == AfterInteger(c) # << >> /\ Head(AfterInteger(c)) = "."

FractionText(c) == IF HasPoint(c) THEN LeadingDigits(Tail(AfterInteger(c))) ELSE << >>

Suffix(c) ==
    IF HasPoint(c) THEN Drop(AfterInteger(c), 1 + Len(FractionText(c))) ELSE AfterInteger(c)

IntegerPart(c) == ParseDigits(IntegerText(c), Len(IntegerText(c)))

\* the unit the value calls for: its suffix, its nanoseconds, and the value's
\* whole units
UnitSuffix(self) ==
    IF Gt(self.secs, N(0)) THEN <<"s">>
    ELSE IF Ge(self.nanos, N(1000000)) THEN <<"m", "s">>
    ELSE IF Ge(self.nanos, N(1000)) THEN <<"µ", "s">>
    ELSE <<"n", "s">>

UnitScale(self) ==
    IF Gt(self.secs, N(0)) THEN N(1000000000)
    ELSE IF Ge(self.nanos, N(1000000)) THEN N(1000000)
    ELSE IF Ge(self.nanos, N(1000)) THEN N(1000)
    ELSE N(1)

WholeUnits(self) ==
    IF Gt(self.secs, N(0)) THEN self.secs ELSE Div(self.nanos, UnitScale(self))

\* C18: the unit of a Debug rendering depends on the value alone, whatever
\* the flags: "s" when there are seconds, else "ms" from a millisecond up,
\* else "µs" from a microsecond up, else "ns"; where nothing is rounded (no
\* precision asked for) the digits before the point are the seconds, the
\* nanoseconds div 10^6, div 10^3, or the nanoseconds themselves; under "ns"
\* there is no fraction (no point without a precision, only zeros with one),
\* and ZERO renders as 0ns
C18_UnitByValue ==
    FmtWritten =>
        /\ Suffix(call) = UnitSuffix(call.self)
        /\ IntegerText(call) # << >>
        /\ call.f.precision = None => IntegerPart(call) = WholeUnits(call.self)
        /\ UnitSuffix(call.self) = <<"n", "s">> =>
               /\ call.f.precision = None => ~HasPoint(call)
               /\ \A i \in 1..Len(FractionText(call)) : FractionText(call)[i] = "0"
        /\ (call.self = ZERO /\ call.f.precision = None) =>
               Unsigned(call) = <<"0", "n", "s">>

C18_Witness ==
    /\ FmtWritten
    /\ call.self = Duration(N(0), N(1000000))
    /\ call.f.precision = None
    /\ call.f.width = None
    /\ call.out.text = <<"1", "m", "s">>

FractionPart(c) == ParseDigits(FractionText(c), Len(FractionText(c)))

\* C19: with no precision asked for, the rendering is exact: the number before
\* the unit suffix, times the unit's nanoseconds, is as_nanos of the value;
\* it has at most 9 digits after the point, the last of them not a zero, and
\* no point at all when the value is a whole number of units;
\* Duration(5, 730023852) renders as 5.730023852s
C19_FullPrecision ==
    (Called("fmt") /\ call.f.precision = None) =>
        /\ call.out.tag = "Written"
        /\ Suffix(call) = UnitSuffix(call.self)
        /\ IntegerText(call) # << >>
        /\ LET digits == Len(FractionText(call))
               scaled == N(10 ^ digits)
           IN  /\ digits <= 9
               /\ Mul(Add(Mul(IntegerPart(call), scaled), FractionPart(call)), UnitScale(call.self))
                      = Mul(as_nanos(call.self), scaled)
               /\ HasPoint(call) => digits > 0 /\ FractionText(call)[digits] # "0"
        /\ call.self = Duration(N(5), N(730023852)) =>
               Unsigned(call) = <<"5", ".", "7", "3", "0", "0", "2", "3", "8", "5", "2", "s">>

C19_Witness ==
    /\ Called("fmt")
    /\ call.self = Duration(N(5), N(730023852))
    /\ call.f.precision = None
    /\ call.f.width = None
    /\ ~call.f.sign_plus
    /\ call.out = Written(<<"5", ".", "7", "3", "0", "0", "2", "3", "8", "5", "2", "s">>)

\* the value in its unit times 10^p: the whole part of it and what a
\* precision of p cuts off, in units of 10^-p / UnitScale
Shifted(c) == Mul(as_nanos(c.self), N(10 ^ c.f.precision.v))

Kept(c) == Div(Shifted(c), UnitScale(c.self))

CutOff(c) == Mod(Shifted(c), UnitScale(c.self))

Cuts(c) ==
    /\ c.f.precision.tag = "Some"
    /\ c.f.precision.v < 9
    /\ CutOff(c) # N(0)

HalfUp(c) ==
    IF Ge(Add(CutOff(c), CutOff(c)), UnitScale(c.self)) THEN Add(Kept(c), N(1)) ELSE Kept(c)

\* C20: when a precision p < 9 cuts off a non-zero remainder, the rendering
\* is the value in its unit rounded half-up to p digits: p digits follow the
\* point (no point for p = 0), and the digits written, read as one number,
\* are the kept digits plus one exactly when the first digit cut off is 5 or
\* more, the carry running through the 9s and into the integer part
C20_RoundHalfUp ==
    (Called("fmt") /\ Cuts(call)) =>
        /\ call.out.tag = "Written"
        /\ Suffix(call) = UnitSuffix(call.self)
        /\ IntegerText(call) # << >>
        /\ Len(FractionText(call)) = call.f.precision.v
        /\ HasPoint(call) <=> call.f.precision.v > 0
        /\ Add(Mul(IntegerPart(call), N(10 ^ call.f.precision.v)), FractionPart(call))
               = HalfUp(call)

\* C21: the unpadded rendering is [+]<integer_part>[.<digits>]<unit>: it
\* starts with '+' exactly when the sign-plus flag is set; with a precision
\* p > 0 a point and exactly p digits follow the integer part, whatever the
\* value (p above 9 and a zero fraction included); with p = 0 there is no
\* point and there are no digits
C21_Shape ==
    (FmtWritten /\ call.f.width = None) =>
        LET text == call.out.text
            sign == IF call.f.sign_plus THEN <<"+">> ELSE << >>
        IN  /\ text # << >>
            /\ Head(text) = "+" <=> call.f.sign_plus
            /\ IntegerText(call) # << >>
            /\ Suffix(call) \in {<<"s">>, <<"m", "s">>, <<"µ", "s">>, <<"n", "s">>}
            /\ text = sign \o IntegerText(call)
                            \o (IF HasPoint(call) THEN <<".">> \o FractionText(call) ELSE << >>)
                            \o Suffix(call)
            /\ HasPoint(call) => FractionText(call) # << >>
            /\ call.f.precision.tag = "Some" =>
                   /\ Len(FractionText(call)) = call.f.precision.v
                   /\ HasPoint(call) <=> call.f.precision.v > 0

C21_Witness ==
    /\ FmtWritten
    /\ call.self = Duration(N(0), N(95))
    /\ call.f.precision = Some(BufLen + 1)
    /\ call.f.width = None
    /\ call.f.sign_plus
    /\ call.out.text = <<"+", "9", "5", ".", "0", "0", "0", "0", "0", "0", "0", "0", "0", "0", "n", "s">>

Fill(c, k) == [i \in 1..k |-> c.f.fill]

\* what the same call writes when no width is asked for
Unpadded(c) ==
    {fmt(c.self, [c.f EXCEPT !.width = None], overflow_checks) : overflow_checks \in BOOLEAN}

\* C22: with a minimum width w the output has max(w, n) characters, n being
\* the number of characters of the unpadded rendering ("µs" counting two):
\* it is the unpadded rendering itself when w <= n, and otherwise, under the
\* default alignment, the unpadded rendering followed by w - n fill
\* characters; under any alignment the fill characters set aside leave the
\* unpadded rendering
C22_Width ==
    (FmtWritten /\ call.f.width # None) =>
        LET text == call.out.text
            w    == call.f.width.v
            len  == Len(Rendering(call))
        IN  /\ Written(Rendering(call)) \in Unpadded(call)
            /\ Len(text) = (IF w > len THEN w ELSE len)
            /\ w <= len => text = Rendering(call)
            /\ (w > len /\ call.f.align = "Unknown") => text = Rendering(call) \o Fill(call, w - len)

C22_Witness ==
    /\ FmtWritten
    /\ call.self = Duration(N(0), N(1000))
    /\ call.f.precision = None
    /\ call.f.width = Some(24)
    /\ call.f.align = "Unknown"
    /\ ~call.f.sign_plus
    /\ call.out.text = <<"1", "µ", "s">> \o [i \in 1..21 |-> " "]

AllButOneNano == Duration(N(0), N(999999999))

\* C23 as stated: the Duration of no seconds and 999_999_999 nanoseconds is
\* rendered in nanoseconds, with the suffix "ns"
C23_RenderedInNanos ==
    (FmtWritten /\ call.self = AllButOneNano) => Suffix(call) = <<"n", "s">>

\* C23: the Duration of no seconds and 999_999_999 nanoseconds is rendered in
\* milliseconds, with the suffix "ms", under every precision and flag (as
\* 999.999999ms when no precision is asked for)
C23_RenderedInMillis ==
    (Called("fmt") /\ call.self = AllButOneNano) =>
        /\ call.out.tag = "Written"
        /\ Suffix(call) = <<"m", "s">>
        /\ call.f.precision = None =>
               Unsigned(call) = <<"9", "9", "9", ".", "9", "9", "9", "9", "9", "9", "m", "s">>

C23_Witness ==
    /\ FmtWritten
    /\ call.self = AllButOneNano
    /\ call.f.precision = None
    /\ call.f.width = None
    /\ ~call.f.sign_plus
    /\ call.out.text = <<"9", "9", "9", ".", "9", "9", "9", "9", "9", "9", "m", "s">>

Fits32(x) == Lt(x, Two32)
Fits64(x) == Lt(x, Two64)

Canonical(total) == Duration(Div(total, N(1000000000)), Mod(total, N(1000000000)))

MostNanos == Add(Mul(U64_MAX, N(1000000000)), N(999999999))

\* C24: on valid inputs no intermediate value wraps or is truncated, so each
\* result is the one exact arithmetic gives: the 32-bit nanos(a) + nanos(b)
\* of checked_add; the 32-bit nanos(a) + 10^9 - nanos(b) of checked_sub; the
\* 64-bit nanos * k of checked_mul; the 64-bit (secs mod k) * 10^9 of
\* checked_div and its quotient by k cast to 32 bits; the 32-bit scaled
\* remainder of from_millis and from_micros; and the 64-bit nanosecond
\* accumulator of sum, which the fold leaves at (total_nanos mod 10^9) +
\* nanos(entry), so that the sum is exact from any accumulators on
C24_NoIntermediateWrap ==
    /\ Called("checked_add") =>
           LET nanos == Add(call.self.nanos, call.rhs.nanos)
           IN  /\ Fits32(nanos)
               /\ call.out.tag = "Some" => call.out.v.nanos = Mod(nanos, N(1000000000))
    /\ Called("checked_sub") =>
           LET lent == Add(call.self.nanos, N(1000000000))
           IN  /\ Fits32(lent)
               /\ Ge(lent, call.rhs.nanos)
               /\ call.out.tag = "Some" =>
                      call.out.v.nanos = Mod(Sub(lent, call.rhs.nanos), N(1000000000))
    /\ Called("checked_mul") =>
           LET total_nanos == Mul(call.self.nanos, call.rhs)
           IN  /\ Fits64(total_nanos)
               /\ call.out.tag = "Some" =>
                      /\ call.out.v.nanos = Mod(total_nanos, N(1000000000))
                      /\ as_nanos(call.out.v) = Mul(as_nanos(call.self), call.rhs)
    /\ (Called("checked_div") /\ call.rhs # N(0)) =>
           LET carry       == Mod(call.self.secs, call.rhs)
               scaled      == Mul(carry, N(1000000000))
               extra_nanos == Div(scaled, call.rhs)
               nanos       == Add(Div(call.self.nanos, call.rhs), extra_nanos)
           IN  /\ Fits64(Mul(Div(call.self.secs, call.rhs), call.rhs))
               /\ Fits64(scaled)
               /\ Fits32(extra_nanos)
               /\ Fits32(nanos)
               /\ call.out = Some(Duration(Div(call.self.secs, call.rhs), nanos))
    /\ Called("from_millis") =>
           LET nanos == Mul(Mod(call.arg, N(1000)), N(1000000))
           IN  Fits32(nanos) /\ call.out.v.nanos = nanos
    /\ Called("from_micros") =>
           LET nanos == Mul(Mod(call.arg, N(1000000)), N(1000))
           IN  Fits32(nanos) /\ call.out.v.nanos = nanos
    /\ Called("sum_tail") =>
           LET total == Add(Add(Mul(call.total_secs, N(1000000000)), call.total_nanos),
                            TotalNanos(call.iter))
           IN  /\ \A i \in 1..Len(call.iter) :
                      Fits64(Add(N(999999999), call.iter[i].nanos))
               /\ IF Gt(total, MostNanos)
                  THEN call.out.tag = "Panic"
                  ELSE call.out = Return(Canonical(total))

\* a sum that finds the nanosecond accumulator full, folds it into the
\* seconds and goes on
C24_Witness ==
    /\ Called("sum_tail")
    /\ call.total_secs = N(0)
    /\ call.total_nanos = U64_MAX
    /\ Len(call.iter) = 2
    /\ call.iter[1].nanos = N(999999999)
    /\ call.out.tag = "Return"

\* the call of fmt_decimal that fmt makes for a value: the whole units, what
\* is left of the value in nanoseconds, and the weight of the first digit
DecimalCall(self) ==
    [fractional_part |-> Sub(as_nanos(self), Mul(WholeUnits(self), UnitScale(self))),
     divisor         |-> IF UnitScale(self) = N(1) THEN N(1) ELSE Div(UnitScale(self), N(10)),
     integer_part    |-> WholeUnits(self)]

DigitLoop(c) ==
    write_digits(c.f, [i \in 1..9 |-> 48], 0,
                 DecimalCall(c.self).fractional_part, DecimalCall(c.self).divisor)

\* C25: every call of fmt_decimal made for a valid Duration, under any
\* precision, meets its preconditions (the divisor is a power of ten up to
\* 100_000_000 and fractional_part < 10 * divisor), and its digit loop is well
\* defined: it never indexes past the 9 bytes of the buffer, never divides
\* by a zero divisor, writes only digits 0..9, and ends within 9 iterations
C25_DigitLoopDefined ==
    Called("fmt") =>
        LET a    == DecimalCall(call.self)
            sign == IF call.f.sign_plus THEN <<"+">> ELSE << >>
            loop == DigitLoop(call)
        IN  /\ call.out \in {fmt_decimal(call.f, a.integer_part, a.fractional_part, a.divisor,
                                          sign, UnitSuffix(call.self), overflow_checks) :
                                 overflow_checks \in BOOLEAN}
            /\ a.divisor \in {N(10 ^ k) : k \in 0..8}
            /\ Lt(a.fractional_part, Mul(N(10), a.divisor))
            /\ loop.tag = "Return"
            /\ loop.v.pos <= 9
            /\ \A i \in 1..9 : loop.v.buf[i] \in 48..57
            /\ call.out.tag = "Panic" => call.out.msg = "attempt to add with overflow"
            /\ call.out.tag = "Written" => Suffix(call) = UnitSuffix(call.self)

\* nine digits are written, and a precision of ten asks for one more
C25_Witness ==
    /\ FmtWritten
    /\ call.self = Duration(N(5), N(730023852))
    /\ call.f.precision = Some(10)
    /\ call.f.width = None
    /\ DigitLoop(call).v.pos = 9
    /\ Unsigned(call) = <<"5", ".", "7", "3", "0", "0", "2", "3", "8", "5", "2", "0", "s">>

\* C26: for every valid Duration d and every scalar k other than zero,
\* checked_div(d, k) is Some(r) with r the truncated quotient of the whole
\* span: as_nanos(r) = as_nanos(d) div k
C26_ExactQuotient ==
    (Called("checked_div") /\ call.rhs # N(0)) =>
        /\ call.out.tag = "Some"
        /\ as_nanos(call.out.v) = Div(as_nanos(call.self), call.rhs)

\* C27: multiplying by a scalar and dividing by it again gives the Duration
\* back: whenever checked_mul(d, k) = Some(p) for a scalar k other than zero,
\* checked_div(p, k) = Some(d)
C27_MulThenDiv ==
    (Called("checked_mul") /\ call.rhs # N(0) /\ call.out.tag = "Some") =>
        checked_div(call.out.v, call.rhs) = Some(call.self)

\* the integer part of the value rounded half-up at the precision asked for
RoundedInteger(c) ==
    IF Cuts(c) THEN Div(HalfUp(c), N(10 ^ c.f.precision.v)) ELSE WholeUnits(c.self)

\* C28: for every valid Duration, those of u64::MAX seconds included, and
\* every precision, the carry of the rounding into the integer part does not
\* overflow it: the call never panics and the integer part written is that
\* of the rounded value
C28_CarryNeverOverflows ==
    Called("fmt") =>
        /\ call.out.tag = "Written"
        /\ IntegerPart(call) = RoundedInteger(call)

SubSecond(c) == Called("fmt") /\ c.self.secs = N(0)

\* the rounding carried into the integer part
CarriedIn(c) == Cuts(c) /\ Gt(Div(HalfUp(c), N(10 ^ c.f.precision.v)), WholeUnits(c.self))

\* C29 as stated: with no whole seconds, under every precision, the integer
\* part written before "ms", "µs" or "ns" is at most 999
C29_AtMost999 ==
    SubSecond(call) => (call.out.tag = "Written" /\ Le(IntegerPart(call), N(999)))

\* C29: with no whole seconds the integer part written before "ms", "µs" or
\* "ns" is at most 999 unless the rounding at a reduced precision carries
\* into it, and at most 1000 then (999.5ms and more is written as 1000ms at
\* precision 0, in the unit of the value)
C29_AtMost1000 ==
    SubSecond(call) =>
        /\ call.out.tag = "Written"
        /\ Suffix(call) \in {<<"m", "s">>, <<"µ", "s">>, <<"n", "s">>}
        /\ Le(IntegerPart(call), N(1000))
        /\ ~CarriedIn(call) => Le(IntegerPart(call), N(999))
        /\ Suffix(call) = <<"n", "s">> => Le(IntegerPart(call), N(999))

C29_Witness ==
    /\ SubSecond(call)
    /\ call.self.nanos = N(999500000)
    /\ call.f.precision = Some(0)
    /\ call.f.width = None
    /\ ~call.f.sign_plus
    /\ call.out.text = <<"1", "0", "0", "0", "m", "s">>

\* the conversion a float call made and the patterns it is made on
Conversion(c, x) ==
    IF c.op = "try_from_secs_f32" THEN try_from_secs_f32(x) ELSE try_from_secs_f64(x)

Patterns(c) == IF c.op = "try_from_secs_f32" THEN F32Inputs ELSE F64Inputs

\* the patterns of sign bit clear that are no smaller than the one converted
NoSmaller(c) ==
    {y \in Patterns(c) : Ge(y, c.arg) /\ Conversion(c, y) # Err("Negative")}

\* C30: try_from_secs_f32 / try_from_secs_f64 are monotone on the inputs of
\* sign bit clear, compared as bit patterns: when x <= y are both converted,
\* the Duration of x is not above that of y in Duration's ordering, across
\* the exponent branches too; and when x fails with OverflowOrNan so does
\* every y >= x
C30_Monotone ==
    (TryCalled /\ ~SignBit(call)) =>
        \A y \in NoSmaller(call) :
            LET dy == Conversion(call, y)
            IN  /\ (call.out.tag = "Ok" /\ dy.tag = "Ok") => ~duration_lt(dy.v, call.out.v)
                /\ call.out = Err("OverflowOrNan") => dy = Err("OverflowOrNan")

\* the largest double below 1 and the double 1 after it, an exponent apart
C30_Witness ==
    /\ Called("try_from_secs_f64")
    /\ call.arg = Sub(Mul(N(1023), Pow2(52)), N(1))
    /\ call.out.tag = "Ok"
    /\ Mul(N(1023), Pow2(52)) \in NoSmaller(call)
    /\ duration_lt(call.out.v, Conversion(call, Mul(N(1023), Pow2(52))).v)

====
